---- MODULE Spec2Model ----
(***************************************************************************)
(* The search-and-evaluation core of IA.py: evaluate_game,                 *)
(* evaluate_end_node, win_score, evaluated_move, minimax, alpha_beta and   *)
(* get_AI_move.  The rules engine (module chess) is not part of IA.py: a   *)
(* Game is modelled as a finite game tree whose nodes carry what the rules *)
(* engine answers about a position (side to move, the end conditions that  *)
(* hold, the static balance, the legal moves in enumeration order).        *)
(* minimax and alpha_beta run as an explicit call stack, one action per    *)
(* block of the code.                                                      *)
(***************************************************************************)
EXTENDS Integers, Sequences, FiniteSets

(* ------------------------------ bounds -------------------------------- *)

\* Positions in one game tree (the root included).
MaxNodes == 6

\* Legal moves of one position.
MaxMoves == 2

\* Search depth of a root call.
MaxDepth == 4

\* Lines of book.txt.
MaxBookLines == 1

\* Static balances (material + positional) of the positions at the horizon.
StaticScores == {-1, 0, 1}

(* ------------------------ the rules engine ---------------------------- *)

WHITE == "WHITE"
BLACK == "BLACK"

\* PIECE_VALUES[KING]: any value whose tenfold exceeds every static balance.
KingValue == 100

\* Python's None, as a move.
None == 0

opposing_color(color) == IF color = WHITE THEN BLACK ELSE WHITE

\* The diagnostics switch of the rules engine: off.
verbose == FALSE

\* The end conditions of a position that has no legal move.
CHECKMATE == "checkmate"
STALEMATE == "stalemate"
INSUFFICIENT == "insufficient_material"
RULE75 == "75_move_rule"

\* End conditions the deep game trees use, and all the consistent ones.
PlainEnds == {{CHECKMATE}, {STALEMATE}}
AllEnds == {e \in SUBSET {CHECKMATE, STALEMATE, INSUFFICIENT, RULE75} :
              e # {} /\ ~({CHECKMATE, STALEMATE} \subseteq e)}

\* A Game: the side to move, the end conditions that hold, the static
\* balance, and the positions its legal moves lead to, in enumeration order.
Position(c, e, s, ms) == [to_move |-> c, ended |-> e, static |-> s, moves |-> ms]

\* Lines(below, n, k): the sequences of at most k game trees with n positions
\* between them, below[j] being the trees of exactly j positions.  LinesFrom
\* gives those whose first tree has j positions or more.
RECURSIVE Lines(_, _, _), LinesFrom(_, _, _, _)
Lines(below, n, k) ==
  IF n = 0 THEN {<<>>}
  ELSE IF k = 0 THEN {}
       ELSE LinesFrom(below, n, k, 1)

LinesFrom(below, n, k, j) ==
  IF j > n THEN {}
  ELSE LET first == {<<p>> \o rest : p \in below[j], rest \in Lines(below, n - j, k - 1)}
       IN IF first = {} THEN LinesFrom(below, n, k, j + 1)
          ELSE first \cup LinesFrom(below, n, k, j + 1)

\* The positions without a legal move, r plies above the horizon: ended
\* ones, and at the horizon the ones the search evaluates statically.
Leaves(r, c, ends) ==
  {Position(c, e, 0, <<>>) : e \in ends}
  \cup (IF r = 0 THEN {Position(c, {}, s, <<>>) : s \in StaticScores} ELSE {})

\* PositionsBySize(r, c, ends)[n]: the game trees with c to move and exactly
\* n positions, every line ending after at most r plies in an ended position
\* or after exactly r plies at the horizon.  Grown fills the sizes 1..n from
\* the trees one ply nearer the horizon.
RECURSIVE PositionsBySize(_, _, _), Grown(_, _, _, _, _)
Grown(below, r, c, ends, n) ==
  IF n = 0 THEN <<>>
  ELSE Append(Grown(below, r, c, ends, n - 1),
              IF n = 1 THEN Leaves(r, c, ends)
              ELSE IF r = 0 THEN {}
                   ELSE {Position(c, {}, 0, ms) :
                           ms \in Lines(below, n - 1, MaxMoves)})

PositionsBySize(r, c, ends) ==
  Grown(IF r = 0 THEN <<>>
        ELSE PositionsBySize(r - 1, opposing_color(c), ends),
        r, c, ends, MaxNodes)

legal_moves(game, color) == [k \in 1..Len(game.moves) |-> k]

make_move(game, move) == game.moves[move]

is_checkmate(game, color) == CHECKMATE \in game.ended /\ color = game.to_move

is_stalemate(game) == STALEMATE \in game.ended

has_insufficient_material(game) == INSUFFICIENT \in game.ended

is_under_75_move_rule(game) == RULE75 \in game.ended

game_ended(game) ==
  \/ is_checkmate(game, game.to_move)
  \/ is_stalemate(game)
  \/ has_insufficient_material(game)
  \/ is_under_75_move_rule(game)

\* material_balance(game.board) + positional_balance(game)
static_balance(game) == game.static

(* --------------------------- the evaluator ---------------------------- *)

win_score(color) == IF color = WHITE THEN -10 * KingValue ELSE 10 * KingValue

\* float('inf') and -float('inf'): beyond every score.
PosInf == 10 * KingValue + 1
NegInf == -PosInf

\* A function that falls off its end returns None, which is no score.
NoScore == PosInf + 1

\* Mutant: the mate is scored for the side that was mated.
evaluate_end_node_wrong_side(game) ==
  IF is_checkmate(game, game.to_move) THEN win_score(opposing_color(game.to_move))
  ELSE IF is_stalemate(game) \/ has_insufficient_material(game)
          \/ is_under_75_move_rule(game)
       THEN 0
       ELSE NoScore

evaluate_end_node(game) ==
  IF is_checkmate(game, game.to_move) THEN win_score(game.to_move)
  ELSE IF is_stalemate(game) \/ has_insufficient_material(game)
          \/ is_under_75_move_rule(game)
       THEN 0
       ELSE NoScore

evaluate_game(game) ==
  IF game_ended(game) THEN evaluate_end_node(game) ELSE static_balance(game)

\* [move, score], the value the three searches return.
Result(m, s) == [move |-> m, score |-> s]

\* choice(seq) of an empty list raises IndexError.
IndexError == [exc |-> "IndexError"]

Raised(r) == "exc" \in DOMAIN r

\* choice(best_moves) paired with the score: every outcome of the draw.
choice_result(best_moves, score) ==
  IF best_moves = <<>> THEN {IndexError}
  ELSE {Result(best_moves[k], score) : k \in 1..Len(best_moves)}

\* Mutant: a tie replaces the running best too.
improves_or_ties(color, evaluation, best_score) ==
  \/ color = WHITE /\ evaluation >= best_score
  \/ color = BLACK /\ evaluation <= best_score

\* Whether an evaluation replaces the running best of color.
improves(color, evaluation, best_score) ==
  \/ color = WHITE /\ evaluation > best_score
  \/ color = BLACK /\ evaluation < best_score

\* The loop of evaluated_move from move i on.
RECURSIVE evaluated_move_from(_, _, _, _, _)
evaluated_move_from(game, color, i, best_score, best_moves) ==
  IF i > Len(legal_moves(game, color))
  THEN choice_result(best_moves, best_score)
  ELSE LET move == legal_moves(game, color)[i]
           evaluation == evaluate_game(make_move(game, move))
       IN IF is_checkmate(make_move(game, move), opposing_color(game.to_move))
          THEN {Result(move, evaluation)}
          ELSE IF improves(color, evaluation, best_score)
               THEN evaluated_move_from(game, color, i + 1, evaluation, <<move>>)
               ELSE IF evaluation = best_score
                    THEN evaluated_move_from(game, color, i + 1, best_score,
                                             Append(best_moves, move))
                    ELSE evaluated_move_from(game, color, i + 1, best_score,
                                             best_moves)

evaluated_move(game, color) ==
  evaluated_move_from(game, color, 1, win_score(color), <<>>)

(* ------------------------------ state --------------------------------- *)

VARIABLES
  game,    \* the Game the calls are made on
  depth,   \* the depth the calls are made with
  phase,   \* which call of the run is in progress
  stack,   \* the call stack of minimax / alpha_beta, innermost last
  ret,     \* <<r>>: the value the callee just returned to the top frame
  mm,      \* <<r>>: what the root call of minimax returned
  ab,      \* <<r>>: what the root call of alpha_beta returned
  ai,      \* <<r>>: how get_AI_move ended
  book,    \* <<b>>: use_book and what find_in_book answered in get_AI_move
  pruned   \* whether a cutoff of the running alpha_beta call skipped a move

vars == <<game, depth, phase, stack, ret, mm, ab, ai, book, pruned>>

Colors == {WHITE, BLACK}

\* The games the calls are made on with depth d, by their number of
\* positions: the game trees searched to their horizon and, for depth 1,
\* the one-ply games over every end condition.
Games(c, d) ==
  IF d = 1 THEN <<PositionsBySize(1, c, PlainEnds), PositionsBySize(1, c, AllEnds)>>
  ELSE <<PositionsBySize(d, c, PlainEnds)>>

\* Mutant: the window starts at zero.
ZeroWindow == <<0, 0>>

\* alpha=-float('inf'), beta=float('inf')
DefaultWindow == <<NegInf, PosInf>>

Init ==
  /\ \E c \in Colors, d \in 1..MaxDepth :
       LET games == Games(c, d)
       IN \E k \in 1..Len(games), n \in 1..MaxNodes :
            /\ game \in games[k][n]
            /\ depth = d
  /\ phase = "start"
  /\ stack = <<>>
  /\ ret = <<>>
  /\ mm = <<>>
  /\ ab = <<>>
  /\ ai = <<>>
  /\ book = <<>>
  /\ pruned = FALSE

(* --------------------------- the call stack --------------------------- *)

\* The frame of a call of fn (minimax or alpha_beta) at its first line.
Frame(fn, g, color, d, alpha, beta) ==
  [fn |-> fn, game |-> g, color |-> color, depth |-> d,
   alpha |-> alpha, beta |-> beta,
   best_score |-> 0, best_moves |-> <<>>, i |-> 0, pc |-> "entry", cut |-> FALSE]

top == stack[Len(stack)]

SetTop(f) == [stack EXCEPT ![Len(stack)] = f]

Running == stack # <<>>

\* The move the loop of the top frame is at.
current_move == legal_moves(top.game, top.color)[top.i]

\* What get_AI_move returns: the move, or the exception it ends in.
Returned(m) == [move |-> m]

UnboundLocalError == [exc |-> "UnboundLocalError"]

\* The diagnostic line of get_AI_move reads move[0]: a TypeError on None.
TypeError == [exc |-> "TypeError"]

\* if verbose: print(... move[0] ...); return move
reported(move) ==
  IF verbose /\ move = None THEN TypeError ELSE Returned(move)

\* The root call returns r (or raises) to whoever made it.
Deliver(r) ==
  /\ stack' = <<>>
  /\ ret' = <<>>
  /\ UNCHANGED <<game, depth, book, pruned>>
  /\ IF phase = "minimax"
     THEN /\ mm' = <<r>>
          /\ phase' = IF Raised(r) THEN "done" ELSE "mid"
          /\ UNCHANGED <<ab, ai>>
     ELSE \* get_AI_move: move = alpha_beta(game, game.to_move, depth)[0]
          /\ ab' = <<r>>
          /\ ai' = <<IF Raised(r) THEN r ELSE reported(r.move)>>
          /\ phase' = "done"
          /\ UNCHANGED mm

\* The top frame returns r to its caller; an exception unwinds every frame.
Return(r) ==
  IF Raised(r) \/ Len(stack) = 1
  THEN Deliver(r)
  ELSE /\ stack' = SubSeq(stack, 1, Len(stack) - 1)
       /\ ret' = <<r>>
       /\ UNCHANGED <<game, depth, phase, mm, ab, ai, book, pruned>>

\* The top frame goes on as f.
Continue(f) ==
  /\ stack' = SetTop(f)
  /\ ret' = <<>>
  /\ pruned' = (pruned \/ (f.cut /\ f.i < Len(legal_moves(f.game, f.color))))
  /\ UNCHANGED <<game, depth, phase, mm, ab, ai, book>>

\* The top frame calls fn one ply deeper.
Call(f) ==
  /\ stack' = Append(SetTop([top EXCEPT !.pc = "wait"]), f)
  /\ ret' = <<>>
  /\ UNCHANGED <<game, depth, phase, mm, ab, ai, book, pruned>>

\* Mutant: the mate-in-one exit is left out.
returns_simple_at_depth_1(d, color, simple_evaluation) == d = 1

\* if depth == 1 or simple_evaluation == win_score(opposing_color(color))
returns_simple(d, color, simple_evaluation) ==
  d = 1 \/ simple_evaluation = win_score(opposing_color(color))

\* score == win_score(opposing_color(color)): a forced win is returned at once.
forced_win(color, score) == score = win_score(opposing_color(color))

\* Mutants: the cutoff test reversed, and left out.
cutoff_reversed(alpha, beta) == alpha < beta

cutoff_never(alpha, beta) == FALSE

\* if alpha > beta: the cutoff test.
cutoff(alpha, beta) == alpha > beta

\* Mutant: the recursive call keeps the depth.
child_depth_kept(d) == d

\* The arguments of the recursive call: depth-1 and the current window.
child_depth(d) == d - 1

\* Mutant: the window is handed down swapped.
child_window_swapped(alpha, beta) == <<beta, alpha>>

child_window(alpha, beta) == <<alpha, beta>>

(* ------------------------- minimax, alpha_beta ------------------------ *)

\* if game_ended(game): return [None, evaluate_game(game)]
ReturnEnded ==
  /\ Running /\ top.pc = "entry"
  /\ game_ended(top.game)
  /\ Return(Result(None, evaluate_game(top.game)))

\* The depth-1 base case and the mate-in-one exit.
ReturnSimple ==
  /\ Running /\ top.pc = "entry"
  /\ ~game_ended(top.game)
  /\ \E r \in evaluated_move(top.game, top.color) :
       /\ Raised(r) \/ returns_simple(top.depth, top.color, r.score)
       /\ Return(r)

\* Otherwise the loop over legal_moves starts.
EnterLoop ==
  /\ Running /\ top.pc = "entry"
  /\ ~game_ended(top.game)
  /\ \E r \in evaluated_move(top.game, top.color) :
       /\ ~Raised(r) /\ ~returns_simple(top.depth, top.color, r.score)
       /\ Continue([top EXCEPT !.pc = "loop", !.i = 1,
                               !.best_score = win_score(top.color),
                               !.best_moves = <<>>])

InLoop == Running /\ top.pc = "loop" /\ top.i <= Len(legal_moves(top.game, top.color))

LoopOver ==
  /\ Running
  /\ \/ top.pc = "exit"
     \/ top.pc = "loop" /\ top.i > Len(legal_moves(top.game, top.color))

\* minimax: his_game = make_move(game, move), then the recursive call.
DescendMinimax ==
  /\ InLoop /\ top.fn = "minimax"
  /\ LET his_game == make_move(top.game, current_move)
     IN IF is_checkmate(his_game, his_game.to_move)
        THEN Return(Result(current_move, win_score(his_game.to_move)))
        ELSE Call(Frame("minimax", his_game, opposing_color(top.color),
                        child_depth(top.depth), NegInf, PosInf))

\* alpha_beta: new_game = make_move(game, move), then the recursive call.
DescendAlphaBeta ==
  /\ InLoop /\ top.fn = "alpha_beta"
  /\ LET new_game == make_move(top.game, current_move)
         w == child_window(top.alpha, top.beta)
     IN Call(Frame("alpha_beta", new_game, opposing_color(top.color),
                   child_depth(top.depth), w[1], w[2]))

\* minimax takes the evaluation of the move it searched.
ResumeMinimax ==
  /\ Running /\ top.pc = "wait" /\ ret # <<>> /\ top.fn = "minimax"
  /\ LET evaluation == ret[1].score
         move == current_move
     IN IF forced_win(top.color, evaluation)
        THEN Return(Result(move, evaluation))
        ELSE IF improves(top.color, evaluation, top.best_score)
             THEN Continue([top EXCEPT !.pc = "loop", !.i = top.i + 1,
                                       !.best_score = evaluation,
                                       !.best_moves = <<move>>])
             ELSE IF evaluation = top.best_score
                  THEN Continue([top EXCEPT !.pc = "loop", !.i = top.i + 1,
                                            !.best_moves = Append(top.best_moves, move)])
                  ELSE Continue([top EXCEPT !.pc = "loop", !.i = top.i + 1])

\* alpha_beta, color == WHITE: the score of the move it searched.
ResumeWhite ==
  /\ Running /\ top.pc = "wait" /\ ret # <<>>
  /\ top.fn = "alpha_beta" /\ top.color = WHITE
  /\ LET score == ret[1].score
         move == current_move
         tied == IF score = top.alpha THEN Append(top.best_moves, move)
                 ELSE top.best_moves
     IN IF forced_win(top.color, score)
        THEN Return(Result(move, score))
        ELSE IF score > top.alpha
             THEN IF cutoff(score, top.beta)
                  THEN Continue([top EXCEPT !.alpha = score, !.best_moves = <<move>>,
                                            !.pc = "exit", !.cut = TRUE])
                  ELSE Continue([top EXCEPT !.alpha = score, !.best_moves = <<move>>,
                                            !.pc = "loop", !.i = top.i + 1])
             ELSE Continue([top EXCEPT !.best_moves = tied,
                                       !.pc = "loop", !.i = top.i + 1])

\* alpha_beta, color == BLACK: the score of the move it searched.
ResumeBlack ==
  /\ Running /\ top.pc = "wait" /\ ret # <<>>
  /\ top.fn = "alpha_beta" /\ top.color = BLACK
  /\ LET score == ret[1].score
         move == current_move
         tied == IF score = top.beta THEN Append(top.best_moves, move)
                 ELSE top.best_moves
     IN IF forced_win(top.color, score)
        THEN Return(Result(move, score))
        ELSE IF score < top.beta
             THEN IF cutoff(top.alpha, score)
                  THEN Continue([top EXCEPT !.beta = score, !.best_moves = <<move>>,
                                            !.pc = "exit", !.cut = TRUE])
                  ELSE Continue([top EXCEPT !.beta = score, !.best_moves = <<move>>,
                                            !.pc = "loop", !.i = top.i + 1])
             ELSE Continue([top EXCEPT !.best_moves = tied,
                                       !.pc = "loop", !.i = top.i + 1])

\* minimax: return [choice(best_moves), best_score]
ExitMinimax ==
  /\ LoopOver /\ top.fn = "minimax"
  /\ \E r \in choice_result(top.best_moves, top.best_score) : Return(r)

\* alpha_beta, WHITE: [choice(best_moves), alpha], or [None, alpha].
ExitWhite ==
  /\ LoopOver /\ top.fn = "alpha_beta" /\ top.color = WHITE
  /\ IF top.best_moves # <<>>
     THEN \E r \in choice_result(top.best_moves, top.alpha) : Return(r)
     ELSE Return(Result(None, top.alpha))

\* alpha_beta, BLACK: [choice(best_moves), beta], or [None, beta].
ExitBlack ==
  /\ LoopOver /\ top.fn = "alpha_beta" /\ top.color = BLACK
  /\ IF top.best_moves # <<>>
     THEN \E r \in choice_result(top.best_moves, top.beta) : Return(r)
     ELSE Return(Result(None, top.beta))

(* ----------------------------- the callers ---------------------------- *)

\* minimax(game, game.to_move, depth)
CallMinimax ==
  /\ phase = "start"
  /\ phase' = "minimax"
  /\ stack' = <<Frame("minimax", game, game.to_move, depth, NegInf, PosInf)>>
  /\ UNCHANGED <<game, depth, ret, mm, ab, ai, book, pruned>>

\* find_in_book: False when the game did not start from INITIAL_FEN, else the
\* lines of book.txt that continue the game's move list.  A line is modelled
\* by whether it continues the move list and by the move that follows in it.
BookLine(continues, next) == [continues |-> continues, next |-> next]

Books ==
  UNION {[1..n -> {BookLine(c, m) : c \in BOOLEAN, m \in 1..MaxMoves}] :
           n \in 0..MaxBookLines}

Continues(line) == line.continues

find_in_book(from_initial, book_file) ==
  IF ~from_initial THEN [list |-> FALSE, openings |-> <<>>]
  ELSE [list |-> TRUE, openings |-> SelectSeq(book_file, Continues)]

\* Python's truth value of what find_in_book returned: False and [] are false.
truthy(found) == found.list /\ found.openings # <<>>

\* get_book_move: the first move after the move list in choice(openings).
get_book_move(found) == {found.openings[k].next : k \in 1..Len(found.openings)}

\* Everything find_in_book can answer.
BookAnswers ==
  {find_in_book(from_initial, book_file) :
     from_initial \in BOOLEAN, book_file \in Books}

\* get_AI_move(game, depth, use_book=True)
GetAIMoveBook ==
  /\ phase = "mid"
  /\ \E found \in BookAnswers :
       /\ book' = <<[use_book |-> TRUE, list |-> found.list,
                     hit |-> truthy(found)]>>
       /\ IF truthy(found)
          THEN \E move \in get_book_move(found) : ai' = <<reported(move)>>
          ELSE ai' = <<UnboundLocalError>>
  /\ phase' = "done"
  /\ UNCHANGED <<game, depth, stack, ret, mm, ab, pruned>>

\* get_AI_move(game, depth, use_book=False): up to the call of alpha_beta.
GetAIMoveSearch ==
  /\ phase = "mid"
  /\ book' = <<[use_book |-> FALSE, list |-> FALSE, hit |-> FALSE]>>
  /\ stack' = <<Frame("alpha_beta", game, game.to_move, depth,
                      DefaultWindow[1], DefaultWindow[2])>>
  /\ phase' = "get_AI_move"
  /\ UNCHANGED <<game, depth, ret, mm, ab, ai, pruned>>

Next ==
  \/ CallMinimax
  \/ GetAIMoveBook
  \/ GetAIMoveSearch
  \/ ReturnEnded
  \/ ReturnSimple
  \/ EnterLoop
  \/ DescendMinimax
  \/ DescendAlphaBeta
  \/ ResumeMinimax
  \/ ResumeWhite
  \/ ResumeBlack
  \/ ExitMinimax
  \/ ExitWhite
  \/ ExitBlack

Spec == Init /\ [][Next]_vars
(* ------------------- minimax as a function of the game ---------------- *)

\* The score evaluated_move returns (the move is drawn, the score is not).
simple_score(g, color) ==
  LET r == CHOOSE x \in evaluated_move(g, color) : TRUE
  IN IF Raised(r) THEN NoScore ELSE r.score

\* The score minimax(g, color, d) returns.
RECURSIVE minimax_score(_, _, _), minimax_loop(_, _, _, _, _)
minimax_score(g, color, d) ==
  IF game_ended(g) THEN evaluate_game(g)
  ELSE IF returns_simple(d, color, simple_score(g, color))
       THEN simple_score(g, color)
       ELSE minimax_loop(g, color, d, 1, win_score(color))

minimax_loop(g, color, d, i, best_score) ==
  IF i > Len(legal_moves(g, color)) THEN best_score
  ELSE LET his_game == make_move(g, legal_moves(g, color)[i])
       IN IF is_checkmate(his_game, his_game.to_move)
          THEN win_score(his_game.to_move)
          ELSE LET evaluation ==
                     minimax_score(his_game, opposing_color(color), child_depth(d))
               IN IF forced_win(color, evaluation) THEN evaluation
                  ELSE IF improves(color, evaluation, best_score)
                       THEN minimax_loop(g, color, d, i + 1, evaluation)
                       ELSE minimax_loop(g, color, d, i + 1, best_score)

(* ------------------------------ properties ---------------------------- *)

Moves(g) == 1..Len(g.moves)

Mates(g, m) == is_checkmate(make_move(g, m), opposing_color(g.to_move))

HasMate(g) == ~game_ended(g) /\ \E m \in Moves(g) : Mates(g, m)

\* The root call of alpha_beta, made with the default window, has returned.
DefaultReturned == ab # <<>>

\* The call stack runs minimax as the function above gives it.
MinimaxAgrees ==
  mm # <<>> => ~Raised(mm[1]) /\ mm[1].score = minimax_score(game, game.to_move, depth)

\* C1: the score alpha_beta returns with the default window is the score
\* minimax returns on the same game, colour and depth, whatever is drawn.
C1_PruningKeepsScore ==
  DefaultReturned =>
    /\ ~Raised(ab[1]) /\ ~Raised(mm[1])
    /\ ab[1].score = mm[1].score

\* C1 witness: a depth-3 default-window search in which a cutoff skipped a move.
C1_Witness ==
  /\ DefaultReturned /\ pruned /\ depth >= 3
  /\ ab[1].score = mm[1].score

\* Whether r is a mating move of g with the winner's score.
IsMate(g, r) ==
  /\ ~Raised(r)
  /\ r.move \in Moves(g)
  /\ Mates(g, r.move)
  /\ r.score = win_score(opposing_color(g.to_move))

\* The game of the call that has just returned to the top frame.
returned_game == make_move(top.game, current_move)

\* C2: when a legal move mates, evaluated_move, minimax and alpha_beta (at
\* any depth, in any window) return a mating move with score
\* win_score(opposing_color(color)), and the call makes no recursive call.
C2_MateInOne ==
  /\ HasMate(game) =>
       /\ \A r \in evaluated_move(game, game.to_move) : IsMate(game, r)
       /\ mm # <<>> => IsMate(game, mm[1])
       /\ ab # <<>> => IsMate(game, ab[1])
  /\ (Running /\ top.pc # "entry") => ~HasMate(top.game)
  /\ (Running /\ ret # <<>> /\ HasMate(returned_game)) =>
       IsMate(returned_game, ret[1])

\* C2 witness: a recursive call of alpha_beta, entered at depth 2 or more
\* with a window its caller had narrowed, returned the mate that is the
\* second move of its enumeration.
C2_Witness ==
  /\ Running /\ ret # <<>>
  /\ top.fn = "alpha_beta" /\ top.depth >= 3
  /\ (top.alpha > NegInf \/ top.beta < PosInf)
  /\ HasMate(returned_game)
  /\ Len(returned_game.moves) = 2 /\ ~Mates(returned_game, 1)
  /\ ret[1].move = 2

\* The value of g searched to depth d, d = 0 being the static evaluation.
SearchValue(g, color, d) ==
  IF d = 0 THEN evaluate_game(g) ELSE minimax_score(g, color, d)

\* The move of r leads to a position whose own value is the score of r.
MoveIsWorthScore(r, d) ==
  \/ Raised(r)
  \/ r.move = None
  \/ SearchValue(make_move(game, r.move), opposing_color(game.to_move), d - 1) = r.score

\* C3: every move evaluated_move, minimax or alpha_beta (default window) can
\* return is itself worth the score returned with it: its position evaluates
\* (evaluated_move) or searches to depth-1 (the two searches) to that score.
C3_TieBreakValid ==
  /\ ~game_ended(game) =>
       \A r \in evaluated_move(game, game.to_move) : MoveIsWorthScore(r, 1)
  /\ mm # <<>> => MoveIsWorthScore(mm[1], depth)
  /\ DefaultReturned => MoveIsWorthScore(ab[1], depth)

\* The outcome score of an ended position.
Outcome(g) ==
  IF CHECKMATE \in g.ended
  THEN (IF g.to_move = WHITE THEN -10 * KingValue ELSE 10 * KingValue)
  ELSE 0

\* C4: on an ended game evaluate_end_node, evaluate_game and both searches
\* give the outcome score: win_score(to_move) for a checkmate, 0 otherwise.
C4_EndedScore ==
  /\ game_ended(game) =>
       /\ evaluate_end_node(game) = Outcome(game)
       /\ evaluate_game(game) = Outcome(game)
       /\ mm # <<>> => ~Raised(mm[1]) /\ mm[1].score = Outcome(game)
       /\ ab # <<>> => ~Raised(ab[1]) /\ ab[1].score = Outcome(game)

\* C4 witness: both searches returned on a checkmate that is also a draw by
\* the 75-move rule.
C4_Witness ==
  /\ game.ended = {CHECKMATE, RULE75}
  /\ mm # <<>> /\ ab # <<>>
  /\ ab[1].score = win_score(game.to_move)

BookMissed == book # <<>> /\ book[1].use_book /\ ~book[1].hit

\* C5: when use_book is set and the book has no suggestion, get_AI_move
\* returns the move alpha_beta chooses; it does not end in an error.
C5_BookMissFallsBack ==
  (BookMissed /\ phase = "done") =>
    /\ ai # <<>> /\ ~Raised(ai[1])
    /\ ab # <<>> /\ ai[1].move = ab[1].move

\* The window the caller of frame k held when it made the call.
EntryWindow(k) ==
  IF k = 1 THEN DefaultWindow ELSE <<stack[k - 1].alpha, stack[k - 1].beta>>

\* The loop of frame k has moved a bound past the other.
ObservedCut(k) ==
  /\ stack[k].fn = "alpha_beta"
  /\ stack[k].pc # "entry"
  /\ stack[k].alpha > stack[k].beta

\* C6: in every alpha_beta call alpha never decreases and beta never
\* increases, and once the loop has made alpha > beta the call applies and
\* searches no further move: its next step is its return.
C6_BoundsMonotone ==
  [][\A k \in 1..Len(stack) :
       stack[k].fn = "alpha_beta" =>
         /\ k <= Len(stack') =>
              /\ stack'[k].alpha >= stack[k].alpha
              /\ stack'[k].beta <= stack[k].beta
         /\ ObservedCut(k) => Len(stack') < k]_vars

\* C6 witness: a call has raised alpha above beta with a move still unsearched.
C6_Witness ==
  \E k \in 1..Len(stack) :
    /\ ObservedCut(k)
    /\ stack[k].alpha > EntryWindow(k)[1]
    /\ stack[k].i < Len(stack[k].game.moves)

Max(S) == CHOOSE x \in S : \A y \in S : y <= x

Min(S) == CHOOSE x \in S : \A y \in S : x <= y

BestEvaluation(g) ==
  LET evaluations == {evaluate_game(make_move(g, m)) : m \in Moves(g)}
  IN IF g.to_move = WHITE THEN Max(evaluations) ELSE Min(evaluations)

\* C7: when no legal move mates, evaluated_move returns the maximum (WHITE)
\* or minimum (BLACK) evaluation over the legal moves, and the moves it can
\* return are exactly the legal moves with that evaluation.
C7_SinglePlyBest ==
  (~game_ended(game) /\ ~HasMate(game)) =>
    LET results == evaluated_move(game, game.to_move)
    IN /\ \A r \in results : ~Raised(r) /\ r.score = BestEvaluation(game)
       /\ {r.move : r \in results} =
            {m \in Moves(game) :
               evaluate_game(make_move(game, m)) = BestEvaluation(game)}
       /\ depth = 1 =>
            /\ mm # <<>> => mm[1] \in results
            /\ ab # <<>> => ab[1] \in results

\* C7 witness: a depth-1 search of BLACK returned the second of two moves
\* tied at the minimum, one a drawn ending and one a static balance.
C7_Witness ==
  /\ ~game_ended(game) /\ ~HasMate(game) /\ depth = 1
  /\ game.to_move = BLACK /\ Len(game.moves) = 2
  /\ game_ended(make_move(game, 1)) /\ ~game_ended(make_move(game, 2))
  /\ evaluate_game(make_move(game, 1)) = evaluate_game(make_move(game, 2))
  /\ mm # <<>> /\ mm[1].move = 2

\* The move of a root call: None exactly on an ended game, else a legal move.
RootMove(m) ==
  /\ (m = None) <=> game_ended(game)
  /\ ~game_ended(game) => m \in Moves(game)

PhaseRank ==
  CASE phase = "start" -> 0
    [] phase = "minimax" -> 1
    [] phase = "mid" -> 2
    [] phase = "get_AI_move" -> 3
    [] OTHER -> 4

PcRank(k) ==
  LET f == stack[k]
  IN CASE f.pc = "entry" -> 0
       [] f.pc = "loop" -> 1
       [] f.pc = "wait" -> IF k = Len(stack) /\ ret # <<>> THEN 3 ELSE 2
       [] OTHER -> 4

\* More than the positions a frame passes through: five per move.
Base == 5 * (MaxMoves + 2)

RECURSIVE Power(_, _)
Power(b, n) == IF n = 0 THEN 1 ELSE b * Power(b, n - 1)

RECURSIVE StackProgress(_)
StackProgress(k) ==
  IF k = 0 THEN 0
  ELSE (stack[k].i * 5 + PcRank(k)) * Power(Base, MaxDepth - k)
       + StackProgress(k - 1)

Progress == PhaseRank * Power(Base, MaxDepth) + StackProgress(Len(stack))

\* Every call is one ply below its caller and none is made below depth 1.
DepthDiscipline ==
  /\ Len(stack) <= depth
  /\ \A k \in 1..Len(stack) :
       /\ stack[k].depth >= 1
       /\ stack[k].depth = depth - (k - 1)
       /\ k < Len(stack) => ~game_ended(stack[k].game) /\ stack[k].depth > 1

\* C9: minimax and alpha_beta terminate: every step takes the run further
\* along a bounded measure, each recursive call is made with its caller's
\* depth less one, never below depth 1, and never from depth 1 or from an
\* ended game.
C9_Terminates ==
  [][/\ Progress' > Progress
     /\ Progress' <= 4 * Power(Base, MaxDepth)
     /\ DepthDiscipline']_vars

\* C9 witness: the recursion of a depth-4 alpha_beta search is at depth 1.
C9_Witness ==
  /\ depth = 4 /\ Len(stack) = 4
  /\ top.fn = "alpha_beta" /\ top.depth = 1

\* C10: the root call having alpha <= beta, every recursive call of
\* alpha_beta is entered with alpha <= beta.
C10_WindowNeverEmpty ==
  (/\ DefaultWindow[1] <= DefaultWindow[2]
   /\ Running /\ top.fn = "alpha_beta" /\ top.pc = "entry") =>
    top.alpha <= top.beta

\* C10 witness: a recursive call is entered with a window both of whose
\* bounds the callers have set.
C10_Witness ==
  /\ Len(stack) >= 3 /\ top.fn = "alpha_beta" /\ top.pc = "entry"
  /\ top.alpha > NegInf /\ top.beta < PosInf
====
